---- MODULE Spec2Model ----
(***************************************************************************)
(* Non-consecutive Sudoku: puzzle -> CNF (to_cnf, two encoder files) and    *)
(* the recursive DPLL solver (solve_cnf / dpll) with its grid decoder.      *)
(* The recursion of dpll is an explicit stack of frames; one action per     *)
(* loop iteration / call / return of the Python code.                       *)
(***************************************************************************)
EXTENDS Integers, Sequences, FiniteSets, TLC

VARIABLES
    text,            \* puzzle tokens: sequence of rows, each a sequence of ints
    enc,             \* which encoder file produced the instance ("none": instance given directly)
    pc,              \* "start" | "encoded" | "solving" | "done" | "error"
    clauses,         \* the instance handed to solve_cnf: sequence of clauses (lists of ints)
    num_vars,        \* declared variable count
    literal_counts,  \* Counter built once by solve_cnf (literal -> occurrences)
    stack,           \* active dpll calls, root first
    ret,             \* <<value>> returned by the dpll call that just finished, <<>> if none pending
    status,          \* "none" | "SAT" | "UNSAT" | "IndexError" | "ValueError"
    grid             \* decoded grid returned with "SAT" (<<>> stands for None)

vars == <<text, enc, pc, clauses, num_vars, literal_counts, stack, ret, status, grid>>

----------------------------------------------------------------------------
(* Bounds of the explored inputs *)

MaxVars    == 2   \* variables of a directly given CNF instance
MaxLen     == 2   \* literals per clause of a directly given instance
MaxClauses == 2   \* clauses of a directly given instance
MaxN       == 4   \* grid sizes 0..MaxN are encoded
ClueSpan   == 1   \* clues are placed in the cells (r, c) with r + c < ClueSpan
MaxClues   == 1   \* number of non-blank tokens in a grid

MaxBlanks  == 2   \* cells blanked in the filled grid given to the baseline
Stretch    == 64  \* loop iterations taken as one step in the coarse specification

None == "None"

----------------------------------------------------------------------------
(* Generic helpers *)

Abs(x) == IF x < 0 THEN -x ELSE x

Range(s) == {s[i] : i \in 1..Len(s)}

Last(s) == s[Len(s)]

Front(s) == SubSeq(s, 1, Len(s) - 1)

RECURSIVE Flat(_, _, _)
\* concatenation f[lo] \o ... \o f[hi] of a family of sequences
Flat(f, lo, hi) ==
    IF lo > hi THEN <<>>
    ELSE IF lo = hi THEN f[lo]
    ELSE LET mid == (lo + hi) \div 2
         IN  Flat(f, lo, mid) \o Flat(f, mid + 1, hi)

\* int(N ** 0.5)
ISqrt(n) == CHOOSE b \in 0..n : b * b <= n /\ n < (b + 1) * (b + 1)

\* the index pairs (i1, i2), i1 < i2 < k, in the order of the nested range loops
PairsOf(k) ==
    Flat([i \in 1..k |-> [j \in 1..(k - i) |-> <<i, i + j>>]], 1, k)

----------------------------------------------------------------------------
(* Encoder: to_cnf *)

\* the row stride written as N instead of N * N
varNoSquare(N, r, c, v) == r * N + c * N + v

var(N, r, c, v) == r * N * N + c * N + v

\* "at least one" clause followed by the pairwise "at most one" clauses
ExactlyOne(atLeast, vs) ==
    LET ps == PairsOf(Len(vs))
    IN  <<atLeast>> \o [k \in 1..Len(ps) |-> <<-vs[ps[k][1]], -vs[ps[k][2]]>>]

\* (1) exactly one value per cell; the CODE file spells the at-least-one range as range(1, 10)
CellFamily(e, N) ==
    LET top == IF e = "CODE" THEN 9 ELSE N
        grp(g) == LET r == g \div N
                      c == g % N
                  IN  ExactlyOne([v \in 1..top |-> var(N, r, c, v)],
                                 [v \in 1..N |-> var(N, r, c, v)])
    IN  Flat([g \in 1..(N * N) |-> grp(g - 1)], 1, N * N)

\* (2) each value once per row
RowFamily(N) ==
    LET grp(g) == LET r == g \div N
                      v == (g % N) + 1
                      vs == [c \in 1..N |-> var(N, r, c - 1, v)]
                  IN  ExactlyOne(vs, vs)
    IN  Flat([g \in 1..(N * N) |-> grp(g - 1)], 1, N * N)

\* (3) each value once per column
ColFamily(N) ==
    LET grp(g) == LET c == g \div N
                      v == (g % N) + 1
                      vs == [r \in 1..N |-> var(N, r - 1, c, v)]
                  IN  ExactlyOne(vs, vs)
    IN  Flat([g \in 1..(N * N) |-> grp(g - 1)], 1, N * N)

\* (4) each value once per box; box origins are range(0, N, B)
BoxFamily(N, B) ==
    LET nb == (N + B - 1) \div B
        grp(g) == LET r_box == (g \div (nb * N)) * B
                      c_box == ((g \div N) % nb) * B
                      v == (g % N) + 1
                      vs == [k \in 1..(B * B) |->
                                var(N, r_box + ((k - 1) \div B), c_box + ((k - 1) % B), v)]
                  IN  ExactlyOne(vs, vs)
    IN  Flat([g \in 1..(nb * nb * N) |-> grp(g - 1)], 1, nb * nb * N)

\* only the upward difference v + 1 is excluded
NeighbourClausesUpOnly(N, r, c, r2, c2, v) ==
    IF v < N THEN << <<-var(N, r, c, v), -var(N, r2, c2, v + 1)>> >> ELSE <<>>

\* the (at most two) clauses of one cell, one neighbour and one value
NeighbourClauses(N, r, c, r2, c2, v) ==
    (IF v < N THEN << <<-var(N, r, c, v), -var(N, r2, c2, v + 1)>> >> ELSE <<>>)
    \o (IF v > 1 THEN << <<-var(N, r, c, v), -var(N, r2, c2, v - 1)>> >> ELSE <<>>)

\* the non-consecutive rule left out
AdjFamilyNone(e, N) == <<>>

\* only the neighbour to the right is looked at
AdjFamilyRightOnly(e, N) ==
    LET grp(g) == LET r == g \div (N * N)
                      c == (g \div N) % N
                      v == (g % N) + 1
                  IN  IF c + 1 < N THEN NeighbourClauses(N, r, c, r, c + 1, v) ELSE <<>>
    IN  Flat([g \in 1..(N * N * N) |-> grp(g - 1)], 1, N * N * N)

\* (5) non-consecutive rule; solving/encoder.py looks at (r, c+1) then (r+1, c),
\*     CODE/encoder.py at (i+1, j) then (i, j+1)
AdjFamily(e, N) ==
    LET grp(g) == LET r == g \div (N * N)
                      c == (g \div N) % N
                      v == (g % N) + 1
                      right == IF c + 1 < N THEN NeighbourClauses(N, r, c, r, c + 1, v) ELSE <<>>
                      down  == IF r + 1 < N THEN NeighbourClauses(N, r, c, r + 1, c, v) ELSE <<>>
                  IN  IF e = "CODE" THEN down \o right ELSE right \o down
    IN  Flat([g \in 1..(N * N * N) |-> grp(g - 1)], 1, N * N * N)

\* (6) one unit clause per token greater than 0
ClueFamily(t, N) ==
    LET cell(g) == LET r == g \div N
                       c == g % N
                       v == t[r + 1][c + 1]
                   IN  IF v > 0 THEN << <<var(N, r, c, v)>> >> ELSE <<>>
    IN  Flat([g \in 1..(N * N) |-> cell(g - 1)], 1, N * N)

\* result of to_cnf: the clause list and num_vars, or the exception that escapes
to_cnf(e, t) ==
    LET N == Len(t)
        B == ISqrt(N)
    IN  IF B = 0
        THEN [raised |-> "ValueError", clauses |-> <<>>, num_vars |-> 0]
        ELSE IF \E r \in 1..N : Len(t[r]) < N
        THEN [raised |-> "IndexError", clauses |-> <<>>, num_vars |-> 0]
        ELSE [raised |-> None,
              clauses |-> CellFamily(e, N) \o RowFamily(N) \o ColFamily(N)
                          \o BoxFamily(N, B) \o AdjFamily(e, N) \o ClueFamily(t, N),
              num_vars |-> N * N * N]

----------------------------------------------------------------------------
(* Solver: solve_cnf and dpll *)

\* literal_counts.get(l, 0)
Get(cnt, l) == IF l \in DOMAIN cnt THEN cnt[l] ELSE 0

RECURSIVE CountRange(_, _, _)
\* occurrences of each literal in the clauses cls[lo..hi], one per clause holding it
CountRange(cls, lo, hi) ==
    IF lo > hi THEN <<>>
    ELSE IF lo = hi THEN [l \in cls[lo] |-> 1]
    ELSE LET mid == (lo + hi) \div 2
             a == CountRange(cls, lo, mid)
             b == CountRange(cls, mid + 1, hi)
         IN  [l \in (DOMAIN a) \cup (DOMAIN b) |-> Get(a, l) + Get(b, l)]

\* Counter(l for cl in clauses for l in cl) over the set-converted clauses
Counter(cls) == CountRange(cls, 1, Len(cls))

\* next(iter(cl)) of a one-element set
NextIter(cl) == CHOOSE l \in cl : TRUE

\* faulty variant: no clause is recognised as a unit on entry
UnitsNone(cls) == <<>>

\* [next(iter(cl)) for cl in clauses if len(cl) == 1]
Units(cls) ==
    LET us == SelectSeq(cls, LAMBDA cl : Cardinality(cl) = 1)
    IN  [i \in 1..Len(us) |-> NextIter(us[i])]

\* entry of a dpll call: private copies of the arguments and the initial unit queue
Enter(cls, asg) ==
    [clauses |-> cls, assignment |-> asg, unit_queue |-> Units(cls),
     pc |-> "propagate", var |-> 0, val |-> 0]

\* faulty variant: a clause holding -lit is dropped as if it were satisfied
SimplifyDropsBoth(cls, lit) ==
    SelectSeq(cls, LAMBDA cl : lit \notin cl /\ -lit \notin cl)

\* faulty variant: the falsified literal -lit stays in the clauses that hold it
SimplifyKeepsOpposite(cls, lit) ==
    SelectSeq(cls, LAMBDA cl : lit \notin cl)

\* the clauses that survive fixing literal lit: satisfied ones dropped, -lit removed
Simplify(cls, lit) ==
    LET kept == SelectSeq(cls, LAMBDA cl : lit \notin cl)
    IN  [i \in 1..Len(kept) |-> IF -lit \in kept[i] THEN kept[i] \ {-lit} ELSE kept[i]]

\* some clause becomes empty when -lit is removed from it: it is the unit clause {-lit}
EmptiesClause(cls, lit) ==
    \E i \in 1..Len(cls) : cls[i] = {-lit}

\* unit literals appended to the queue while fixing lit, in clause order: the other
\* literal of each two-literal clause that holds -lit (clauses holding lit are skipped)
NewUnits(cls, lit) ==
    LET shrunk == SelectSeq(cls, LAMBDA cl : Cardinality(cl) = 2 /\ -lit \in cl
                                              /\ lit \notin cl)
    IN  [i \in 1..Len(shrunk) |-> NextIter(shrunk[i] \ {-lit})]

\* model returned at a leaf: unassigned entries become -1
FillModel(asg) == [i \in DOMAIN asg |-> IF i >= 1 /\ asg[i] = 0 THEN -1 ELSE asg[i]]

\* score of a variable in the branching heuristic
Score(cnt, v) == Get(cnt, v) + Get(cnt, -v)

\* faulty variant: the candidates are all variables, assigned or not
ChooseVarAny(cnt, unassigned) ==
    CHOOSE v \in 1..num_vars :
        \A w \in 1..num_vars : Score(cnt, w) < Score(cnt, v)
                                \/ (Score(cnt, w) = Score(cnt, v) /\ v <= w)

\* faulty variant: among equal scores the largest variable id wins
ChooseVarLargest(cnt, unassigned) ==
    CHOOSE v \in unassigned :
        \A w \in unassigned : Score(cnt, w) < Score(cnt, v)
                              \/ (Score(cnt, w) = Score(cnt, v) /\ v >= w)

\* max(unassigned_vars, key=...): the first maximal element of the ascending list
ChooseVar(cnt, unassigned) ==
    CHOOSE v \in unassigned :
        \A w \in unassigned : Score(cnt, w) < Score(cnt, v)
                              \/ (Score(cnt, w) = Score(cnt, v) /\ v <= w)

\* the values tried for the branching variable: for val in (1, -1)
Vals == <<1, -1>>

\* faulty variant: the loop stops after its first value
AfterValNone(val) == 0

\* the value the for loop tries after val, 0 when the loop is over
AfterVal(val) ==
    LET i == CHOOSE k \in 1..Len(Vals) : Vals[k] = val
    IN  IF i < Len(Vals) THEN Vals[i + 1] ELSE 0

Top == stack[Len(stack)]

\* "return result" of the innermost call; ret holds the value until the caller takes it
\* faulty variant: the callee worked on the caller's clause list and assignment array,
\* which keep its changes after the return
ReturnFromShared(result) ==
    /\ stack' = IF Len(stack) >= 2
                THEN [Front(stack) EXCEPT ![Len(stack) - 1].clauses = Top.clauses,
                                          ![Len(stack) - 1].assignment = Top.assignment]
                ELSE Front(stack)
    /\ ret' = <<result>>

ReturnFrom(result) ==
    /\ stack' = Front(stack)
    /\ ret' = <<result>>

\* return False, None
Failure == [sat |-> FALSE, model |-> <<>>]

\* the 9 x 9 grid solve_cnf fills in: for var_index ascending, a true variable writes
\* digit (var % 9) + 1 at row var // 81, column (var % 81) // 9, var = var_index - 1
DecodeGrid(model, nv) ==
    [row \in 0..8 |-> [col \in 0..8 |->
        LET hits == {i \in 1..nv : /\ model[i] = 1
                                   /\ (i - 1) \div 81 = row
                                   /\ ((i - 1) % 81) \div 9 = col}
        IN  IF hits = {} THEN 0
            ELSE LET last == CHOOSE i \in hits : \A j \in hits : j <= i
                 IN  ((last - 1) % 9) + 1]]

\* grid[row] does not exist for row > 8
DecodeRaises(model, nv) == \E i \in 1..nv : model[i] = 1 /\ (i - 1) \div 81 > 8

----------------------------------------------------------------------------
(* Inputs *)

Lits(n) == {l \in (-n)..n : l # 0}

\* a set of integers as a list, ascending
RECURSIVE SetToSeq(_)
SetToSeq(S) ==
    IF S = {} THEN <<>>
    ELSE LET m == CHOOSE x \in S : \A y \in S : x <= y
         IN  <<m>> \o SetToSeq(S \ {m})

Reverse(s) == [i \in 1..Len(s) |-> s[Len(s) + 1 - i]]

RECURSIVE UpTo(_, _)
\* the subsets of S with at most k elements
UpTo(S, k) ==
    IF k = 0 THEN {{}}
    ELSE LET smaller == UpTo(S, k - 1)
         IN  smaller \cup {T \cup {x} : T \in smaller, x \in S}

ClauseInputs(n) == UpTo(Lits(n), MaxLen)

\* rank of a clause among the clauses over n variables (one bit per literal)
RECURSIVE Code(_, _)
Code(cl, n) ==
    IF cl = {} THEN 0
    ELSE LET l == CHOOSE x \in cl : TRUE
         IN  2 ^ (l + n) + Code(cl \ {l}, n)

\* the clause lists explored: at most MaxClauses distinct clauses, each a list of
\* ascending literals, the clauses in ascending or descending rank
InstanceInputs(n) ==
    LET pick(S) == LET codes == SetToSeq({Code(cl, n) : cl \in S})
                   IN  [i \in 1..Len(codes) |->
                          SetToSeq(CHOOSE cl \in S : Code(cl, n) = codes[i])]
        asc == {pick(S) : S \in UpTo(ClauseInputs(n), MaxClauses)}
    IN  asc \cup {Reverse(q) : q \in asc}

\* tokens a puzzle file may hold in a cell: blank, digits, and values outside [0, N]
Tokens(N) == (-1)..(N + 1)

\* 1-based positions of the cells that may hold a non-blank token
ClueCells(N) == {<<r, c>> \in (1..N) \X (1..N) : (r - 1) + (c - 1) < ClueSpan}

\* grids of N rows: all tokens 0 except at most MaxClues cells of the corner;
\* the last row of a blank grid may miss its last token or carry one extra
GridInputs(N) ==
    LET placements == {f \in [ClueCells(N) -> Tokens(N)] :
                           Cardinality({p \in ClueCells(N) : f[p] # 0}) <= MaxClues}
        full(f) == [r \in 1..N |-> [c \in 1..N |->
                        IF <<r, c>> \in ClueCells(N) THEN f[<<r, c>>] ELSE 0]]
        reshape(g, d) == [r \in 1..N |->
                            IF r < N \/ d = 0 THEN g[r]
                            ELSE IF d < 0 THEN Front(g[r]) ELSE Append(g[r], 0)]
        blank == CHOOSE f \in placements : \A p \in ClueCells(N) : f[p] = 0
    IN  {full(f) : f \in placements} \cup {reshape(full(blank), d) : d \in {-1, 1}}

Idle ==
    /\ literal_counts = <<>>
    /\ stack = <<>>
    /\ ret = <<>>
    /\ status = "none"
    /\ grid = <<>>

\* a 9 x 9 puzzle with 18 clues that dpll settles in three calls, one of them failing
Puzzle9 ==
    << <<0, 0, 0, 0, 0, 0, 0, 0, 0>>,
       <<0, 0, 0, 3, 0, 0, 9, 0, 6>>,
       <<0, 4, 0, 9, 0, 2, 0, 0, 0>>,
       <<0, 0, 0, 0, 0, 0, 0, 0, 0>>,
       <<0, 5, 3, 0, 9, 0, 8, 0, 4>>,
       <<0, 2, 0, 0, 0, 0, 0, 0, 0>>,
       <<9, 0, 0, 8, 0, 5, 0, 0, 0>>,
       <<3, 0, 4, 0, 0, 0, 0, 0, 0>>,
       <<0, 1, 0, 0, 0, 0, 0, 0, 0>> >>

\* solve_cnf called directly on a small clause list
InitCnf ==
    /\ text = <<>>
    /\ enc = "none"
    /\ pc = "encoded"
    /\ num_vars \in 1..MaxVars
    /\ clauses \in InstanceInputs(num_vars)
    /\ Idle

\* a puzzle file about to be encoded by one of the two encoder files
InitGrid ==
    /\ enc \in {"solving", "CODE"}
    /\ \E N \in 0..MaxN : text \in GridInputs(N)
    /\ pc = "start"
    /\ clauses = <<>>
    /\ num_vars = 0
    /\ Idle


----------------------------------------------------------------------------
(* Actions *)

\* clauses, num_vars = to_cnf(input_path)
ToCnf ==
    /\ pc = "start"
    /\ LET out == to_cnf(enc, text)
       IN  IF out.raised # None
           THEN /\ pc' = "error"
                /\ status' = out.raised
                /\ UNCHANGED <<clauses, num_vars>>
           ELSE /\ pc' = "encoded"
                /\ clauses' = out.clauses
                /\ num_vars' = out.num_vars
                /\ UNCHANGED status
    /\ UNCHANGED <<text, enc, literal_counts, stack, ret, grid>>

\* solve_cnf up to the root call of dpll
SolveCnf ==
    /\ pc = "encoded"
    /\ LET sets == [i \in 1..Len(clauses) |-> Range(clauses[i])]
       IN  /\ literal_counts' = Counter(sets)
           /\ stack' = <<Enter(sets, [i \in 0..num_vars |-> 0])>>
    /\ pc' = "solving"
    /\ UNCHANGED <<text, enc, clauses, num_vars, ret, status, grid>>

\* an exception escaping dpll unwinds every call
Raise(e) ==
    /\ pc' = "error"
    /\ status' = e
    /\ stack' = <<>>
    /\ UNCHANGED <<ret>>

\* one iteration of "while unit_queue" on the locals f of a call: the loop goes on
\* ("cont") with new locals, the call returns False ("fail"), or assignment[var] raises
PropStep(f) ==
    LET lit == Last(f.unit_queue)
        queue == Front(f.unit_queue)
        v == Abs(lit)
        val == IF lit > 0 THEN 1 ELSE -1
    IN  IF v > num_vars THEN [kind |-> "raise", frame |-> f]
        ELSE IF f.assignment[v] = -val THEN [kind |-> "fail", frame |-> f]
        ELSE IF f.assignment[v] = val
        THEN [kind |-> "cont", frame |-> [f EXCEPT !.unit_queue = queue]]
        ELSE IF EmptiesClause(f.clauses, lit) THEN [kind |-> "fail", frame |-> f]
        ELSE [kind |-> "cont",
              frame |-> [f EXCEPT !.assignment = [f.assignment EXCEPT ![v] = val],
                                  !.clauses = Simplify(f.clauses, lit),
                                  !.unit_queue = queue \o NewUnits(f.clauses, lit)]]

RECURSIVE PropLoop(_, _)
\* up to n consecutive iterations of "while unit_queue" from the locals f
PropLoop(f, n) ==
    IF n = 0 \/ f.unit_queue = <<>> THEN [kind |-> "cont", frame |-> f]
    ELSE LET o == PropStep(f)
         IN  IF o.kind = "cont" THEN PropLoop(o.frame, n - 1) ELSE o

\* the innermost call proceeds as the outcome o of its propagation says
Proceed(o) ==
    IF o.kind = "raise"
    THEN Raise("IndexError")
    ELSE /\ UNCHANGED <<pc, status>>
         /\ IF o.kind = "fail"
            THEN ReturnFrom(Failure)
            ELSE /\ stack' = [stack EXCEPT ![Len(stack)] = o.frame]
                 /\ UNCHANGED ret

\* one iteration of the unit-propagation loop of the innermost call
UnitPropagate ==
    /\ pc = "solving"
    /\ stack # <<>>
    /\ Top.pc = "propagate"
    /\ Top.unit_queue # <<>>
    /\ Proceed(PropStep(Top))
    /\ UNCHANGED <<text, enc, clauses, num_vars, literal_counts, grid>>

\* a stretch of up to Stretch iterations of the unit-propagation loop of the innermost call
Propagate ==
    /\ pc = "solving"
    /\ stack # <<>>
    /\ Top.pc = "propagate"
    /\ Top.unit_queue # <<>>
    /\ Proceed(PropLoop(Top, Stretch))
    /\ UNCHANGED <<text, enc, clauses, num_vars, literal_counts, grid>>

\* after propagation: leaf with a model, dead end, or choice of the branching variable
Decide ==
    /\ pc = "solving"
    /\ stack # <<>>
    /\ Top.pc = "propagate"
    /\ Top.unit_queue = <<>>
    /\ LET f == Top
           unassigned_vars == {i \in 1..num_vars : f.assignment[i] = 0}
       IN  IF f.clauses = <<>>
           THEN ReturnFrom([sat |-> TRUE, model |-> FillModel(f.assignment)])
           ELSE IF unassigned_vars = {}
           THEN ReturnFrom(Failure)
           ELSE /\ stack' = [stack EXCEPT ![Len(stack)].pc = "branch",
                                          ![Len(stack)].var = ChooseVar(literal_counts, unassigned_vars),
                                          ![Len(stack)].val = Vals[1]]
                /\ UNCHANGED ret
    /\ UNCHANGED <<text, enc, pc, clauses, num_vars, literal_counts, status, grid>>

\* one iteration of "for val in (1, -1)" up to the recursive call
Branch ==
    /\ pc = "solving"
    /\ stack # <<>>
    /\ Top.pc = "branch"
    /\ LET f == Top
           target_lit == IF f.val > 0 THEN f.var ELSE -f.var
       IN  IF EmptiesClause(f.clauses, target_lit)
           THEN IF AfterVal(f.val) # 0
                THEN /\ stack' = [stack EXCEPT ![Len(stack)].val = AfterVal(f.val)]
                     /\ UNCHANGED ret
                ELSE ReturnFrom(Failure)
           ELSE /\ stack' = Append([stack EXCEPT ![Len(stack)].pc = "call"],
                                   Enter(Simplify(f.clauses, target_lit),
                                         [f.assignment EXCEPT ![f.var] = f.val]))
                /\ UNCHANGED ret
    /\ UNCHANGED <<text, enc, pc, clauses, num_vars, literal_counts, status, grid>>

\* the recursive call returned to its caller
Resume ==
    /\ pc = "solving"
    /\ stack # <<>>
    /\ Top.pc = "call"
    /\ ret # <<>>
    /\ IF ret[1].sat
       THEN ReturnFrom(ret[1])
       ELSE IF AfterVal(Top.val) # 0
       THEN /\ stack' = [stack EXCEPT ![Len(stack)].pc = "branch",
                                      ![Len(stack)].val = AfterVal(Top.val)]
            /\ ret' = <<>>
       ELSE ReturnFrom(Failure)
    /\ UNCHANGED <<text, enc, pc, clauses, num_vars, literal_counts, status, grid>>

\* the root call returned: solve_cnf builds its result
Decode ==
    /\ pc = "solving"
    /\ stack = <<>>
    /\ ret # <<>>
    /\ IF ret[1].sat
       THEN IF DecodeRaises(ret[1].model, num_vars)
            THEN /\ pc' = "error"
                 /\ status' = "IndexError"
                 /\ UNCHANGED grid
            ELSE /\ pc' = "done"
                 /\ status' = "SAT"
                 /\ grid' = DecodeGrid(ret[1].model, num_vars)
       ELSE /\ pc' = "done"
            /\ status' = "UNSAT"
            /\ UNCHANGED grid
    /\ UNCHANGED <<text, enc, clauses, num_vars, literal_counts, stack, ret>>

----------------------------------------------------------------------------
(* Specifications *)

\* solve_cnf on directly given instances
Init == InitCnf

Next == SolveCnf \/ UnitPropagate \/ Decide \/ Branch \/ Resume \/ Decode

Spec == Init /\ [][Next]_vars

\* the pipeline to_cnf -> solve_cnf on puzzle files
NextGrid == ToCnf \/ SolveCnf \/ UnitPropagate \/ Decide \/ Branch \/ Resume \/ Decode

SpecGrid == InitGrid /\ [][NextGrid]_vars

\* the 9 x 9 puzzle file about to be encoded by encoder file e
Start9(e) ==
    /\ enc = e
    /\ text = Puzzle9
    /\ pc = "start"
    /\ clauses = <<>>
    /\ num_vars = 0
    /\ Idle

\* to_cnf alone, of either encoder file, on the small grids and on the 9 x 9 puzzle
InitEncoder == InitGrid \/ Start9("solving") \/ Start9("CODE")

NextEncoder == ToCnf

SpecEncoder == InitEncoder /\ [][NextEncoder]_vars

\* the 9 x 9 puzzle file about to be encoded by solving/encoder.py and solved
Init9 == Start9("solving")

\* n is a perfect square
ValidN(n) == n >= 1 /\ ISqrt(n) * ISqrt(n) = n

\* t is a puzzle: N rows of N tokens of 0..N, N a perfect square
ValidGrid(t) ==
    /\ ValidN(Len(t))
    /\ \A r \in 1..Len(t) : /\ Len(t[r]) = Len(t)
                            /\ \A c \in 1..Len(t) : t[r][c] \in 0..Len(t)

\* the pipeline with the propagation loop taken in stretches, on the small puzzles
\* and on the 9 x 9 puzzle
InitSudoku == (InitGrid /\ ValidGrid(text)) \/ Init9

NextSudoku == ToCnf \/ SolveCnf \/ Propagate \/ Decide \/ Branch \/ Resume \/ Decode

SpecSudoku == InitSudoku /\ [][NextSudoku]_vars

\* the blank N x N grid with token u at cell p and token w at cell q (0-based cells)
TwoClues(N, p, u, q, w) ==
    [r \in 1..N |-> [c \in 1..N |->
        IF <<r - 1, c - 1>> = p THEN u ELSE IF <<r - 1, c - 1>> = q THEN w ELSE 0]]

\* puzzle files with two clues differing by 1 in cells sharing an edge: every such pair
\* of the 4 x 4 grid's top-left box, and pairs at a corner and inside the 9 x 9 grid
ConflictInputs ==
    {TwoClues(4, p, u, q, w) :
        <<p, q>> \in {<<<<0, 0>>, <<0, 1>>>>, <<<<0, 0>>, <<1, 0>>>>,
                      <<<<0, 1>>, <<1, 1>>>>, <<<<1, 0>>, <<1, 1>>>>},
        <<u, w>> \in {x \in (1..4) \X (1..4) : x[1] - x[2] \in {-1, 1}}}
    \cup {TwoClues(9, <<0, 0>>, 1, <<0, 1>>, 2), TwoClues(9, <<0, 0>>, 9, <<1, 0>>, 8),
          TwoClues(9, <<4, 4>>, 5, <<4, 5>>, 4), TwoClues(9, <<7, 8>>, 3, <<8, 8>>, 4)}

\* the pipeline on the small puzzles and on the puzzles with two clashing clues
InitConflict ==
    \/ InitGrid /\ ValidGrid(text)
    \/ /\ enc \in {"solving", "CODE"}
       /\ text \in ConflictInputs
       /\ pc = "start"
       /\ clauses = <<>>
       /\ num_vars = 0
       /\ Idle

SpecConflict == InitConflict /\ [][NextSudoku]_vars

\* the same runs, every enabled step eventually taken (the interpreter keeps executing)
LiveSpec == Spec /\ WF_vars(Next)

----------------------------------------------------------------------------
(* Baseline: solve_with_backtracking and solveSudoku. grid holds mat with rows and
   columns counted from 0, stack the nested calls of solveSudokuRec, ret their result *)

isSafe(mat, N, row, col, num) ==
    LET B == ISqrt(N)
        startRow == row - (row % B)
        startCol == col - (col % B)
        clash(r, c) == mat[r][c] # 0 /\ Abs(mat[r][c] - num) = 1
    IN  /\ \A x \in 0..(N - 1) : mat[row][x] # num
        /\ \A x \in 0..(N - 1) : mat[x][col] # num
        /\ \A i \in 0..(B - 1) : \A j \in 0..(B - 1) : mat[i + startRow][j + startCol] # num
        /\ ~(col > 0 /\ clash(row, col - 1))
        /\ ~(col < N - 1 /\ clash(row, col + 1))
        /\ ~(row > 0 /\ clash(row - 1, col))
        /\ ~(row < N - 1 /\ clash(row + 1, col))

\* the locals of a call solveSudokuRec(mat, row, col) at its first line
Call(row, col) == [row |-> row, col |-> col, num |-> 0, pc |-> "enter"]

\* a grid of 4 rows that obeys the row, column and box rules but not the
\* non-consecutive rule
Filled4 ==
    << <<1, 2, 3, 4>>, <<3, 4, 1, 2>>, <<2, 1, 4, 3>>, <<4, 3, 2, 1>> >>

\* t with the first k cells of its last row blanked
BlankTail(t, k) ==
    [r \in 1..Len(t) |-> [c \in 1..Len(t) |->
        IF r = Len(t) /\ c <= k THEN 0 ELSE t[r][c]]]

\* puzzle files handed to solve_with_backtracking: the small puzzles, the 4 x 4 puzzles
\* with two clashing clues, and the filled grid with up to MaxBlanks cells blanked
InitBaseline ==
    /\ enc = "backtracking"
    /\ \/ \E N \in 1..MaxN : text \in GridInputs(N) /\ ValidGrid(text)
       \/ text \in {t \in ConflictInputs : Len(t) = 4}
       \/ \E k \in 0..MaxBlanks : text = BlankTail(Filled4, k)
    /\ pc = "start"
    /\ clauses = <<>>
    /\ num_vars = 0
    /\ Idle

\* puzzle = read_puzzle(input_path); solveSudoku(puzzle) calls solveSudokuRec(mat, 0, 0)
ReadPuzzle ==
    /\ pc = "start"
    /\ enc = "backtracking"
    /\ grid' = [r \in 0..(Len(text) - 1) |-> [c \in 0..(Len(text) - 1) |-> text[r + 1][c + 1]]]
    /\ stack' = <<Call(0, 0)>>
    /\ pc' = "solving"
    /\ UNCHANGED <<text, enc, clauses, num_vars, literal_counts, ret, status>>

\* solveSudokuRec from its first line to its return, its recursive call past an
\* occupied cell, or the start of its loop over num
RecEnter ==
    /\ pc = "solving"
    /\ enc = "backtracking"
    /\ stack # <<>>
    /\ Top.pc = "enter"
    /\ LET N == Len(text)
           f == Top
           row == IF f.col = N THEN f.row + 1 ELSE f.row
           col == IF f.col = N THEN 0 ELSE f.col
       IN  IF f.row = N - 1 /\ f.col = N
           THEN ReturnFrom(TRUE) /\ UNCHANGED <<pc, status>>
           ELSE IF row > N - 1 \/ col > N - 1
           THEN Raise("IndexError")
           ELSE /\ UNCHANGED <<pc, status, ret>>
                /\ IF grid[row][col] # 0
                   THEN stack' = Append([stack EXCEPT ![Len(stack)] =
                                            [f EXCEPT !.row = row, !.col = col, !.pc = "skip"]],
                                        Call(row, col + 1))
                   ELSE stack' = [stack EXCEPT ![Len(stack)] =
                                     [f EXCEPT !.row = row, !.col = col, !.num = 1, !.pc = "try"]]
    /\ UNCHANGED <<text, enc, clauses, num_vars, literal_counts, grid>>

\* one iteration of "for num in range(1, N + 1)" up to the recursive call, or the
\* return False after the loop
RecTry ==
    /\ pc = "solving"
    /\ enc = "backtracking"
    /\ stack # <<>>
    /\ Top.pc = "try"
    /\ LET N == Len(text)
           f == Top
       IN  IF f.num > N
           THEN ReturnFrom(FALSE) /\ UNCHANGED grid
           ELSE IF isSafe(grid, N, f.row, f.col, f.num)
           THEN /\ grid' = [grid EXCEPT ![f.row][f.col] = f.num]
                /\ stack' = Append([stack EXCEPT ![Len(stack)].pc = "placed"],
                                   Call(f.row, f.col + 1))
                /\ UNCHANGED ret
           ELSE /\ stack' = [stack EXCEPT ![Len(stack)].num = f.num + 1]
                /\ UNCHANGED <<grid, ret>>
    /\ UNCHANGED <<text, enc, pc, clauses, num_vars, literal_counts, status>>

\* a recursive call of solveSudokuRec returned to its caller
RecResume ==
    /\ pc = "solving"
    /\ enc = "backtracking"
    /\ stack # <<>>
    /\ Top.pc \in {"skip", "placed"}
    /\ ret # <<>>
    /\ LET f == Top
       IN  IF f.pc = "skip" \/ ret[1]
           THEN ReturnFrom(ret[1]) /\ UNCHANGED grid
           ELSE /\ grid' = [grid EXCEPT ![f.row][f.col] = 0]
                /\ stack' = [stack EXCEPT ![Len(stack)].pc = "try",
                                          ![Len(stack)].num = f.num + 1]
                /\ ret' = <<>>
    /\ UNCHANGED <<text, enc, pc, clauses, num_vars, literal_counts, status>>

\* solveSudoku returned: solve_with_backtracking builds its result
Report ==
    /\ pc = "solving"
    /\ enc = "backtracking"
    /\ stack = <<>>
    /\ ret # <<>>
    /\ pc' = "done"
    /\ status' = IF ret[1] THEN "SAT" ELSE "UNSAT"
    /\ grid' = IF ret[1] THEN grid ELSE <<>>
    /\ UNCHANGED <<text, enc, clauses, num_vars, literal_counts, stack, ret>>

NextBaseline == ReadPuzzle \/ RecEnter \/ RecTry \/ RecResume \/ Report

SpecBaseline == InitBaseline /\ [][NextBaseline]_vars

----------------------------------------------------------------------------
(* Properties *)

\* truth of literal l under a total model
Holds(model, l) == model[Abs(l)] = (IF l > 0 THEN 1 ELSE -1)

\* a dpll call has just returned True with a model
ReturnedSat == ret # <<>> /\ ret[1].sat

\* every literal of the instance names a variable of 1..num_vars
LiteralsInRange ==
    \A k \in 1..Len(clauses) : \A l \in Range(clauses[k]) : Abs(l) \in 1..num_vars

\* C1 (soundness): a model returned with True is total over 1..num_vars (entries 1 or -1)
\* and makes at least one literal of every clause of the original instance true.
Soundness ==
    (ReturnedSat /\ LiteralsInRange) =>
        LET m == ret[1].model
        IN  /\ \A i \in 1..num_vars : m[i] \in {1, -1}
            /\ \A k \in 1..Len(clauses) : \E l \in Range(clauses[k]) : Holds(m, l)

\* solve_cnf answered SAT on an instance of several clauses, one of them not a unit
SoundnessWitness ==
    /\ pc = "done"
    /\ status = "SAT"
    /\ Len(clauses) >= 2
    /\ \E k \in 1..Len(clauses) : Len(clauses[k]) >= 2

\* some total assignment of 1..num_vars satisfies every clause of the instance
Satisfiable ==
    \E m \in [1..num_vars -> {1, -1}] :
        \A k \in 1..Len(clauses) : \E l \in Range(clauses[k]) : Holds(m, l)

NumAssigned(asg) == Cardinality({i \in 1..num_vars : asg[i] # 0})

\* every call has strictly more assigned variables than its caller, at most num_vars + 1 nest
DepthBounded ==
    /\ Len(stack) <= num_vars + 1
    /\ \A k \in 2..Len(stack) :
          NumAssigned(stack[k].assignment) > NumAssigned(stack[k - 1].assignment)

\* C3 (termination): nesting of dpll calls never exceeds num_vars + 1, each call holding
\* strictly more assigned variables than its caller, and solve_cnf always finishes.
Termination == []DepthBounded /\ <>(pc = "done")

\* a call nested num_vars deep below the root
TerminationWitness == Len(stack) = num_vars + 1

\* grid size of the puzzle file
GridN == Len(text)

\* the variables var(r, c, v) of the clues: cells of the puzzle holding a digit v of 1..N
ClueVars ==
    {var(GridN, p[1] - 1, p[2] - 1, text[p[1]][p[2]]) :
        p \in {q \in (1..GridN) \X (1..GridN) : text[q[1]][q[2]] \in 1..GridN}}

\* the unit propagation of call k is over
Propagated(k) ==
    stack[k].pc \in {"branch", "call"}
    \/ (stack[k].pc = "propagate" /\ stack[k].unit_queue = <<>>)

Encoded == enc # "none" /\ pc = "encoded" /\ ValidN(GridN)

\* the triples (r, c, v) of a grid of size N
Triples(N) == (0..(N - 1)) \X (0..(N - 1)) \X (1..N)

\* C5 (bijection): for a valid N, var(r, c, v) over r, c in 0..N-1 and v in 1..N takes every
\* integer of 1..N^3 exactly once, and the num_vars returned by to_cnf is N^3.
Bijection ==
    Encoded =>
        LET N == GridN
        IN  /\ num_vars = N * N * N
            /\ \A t \in Triples(N) : var(N, t[1], t[2], t[3]) \in 1..(N * N * N)
            /\ \A i \in 1..(N * N * N) :
                  Cardinality({t \in Triples(N) : var(N, t[1], t[2], t[3]) = i}) = 1

\* the 9 x 9 grid has been encoded
BijectionWitness == Encoded /\ GridN = 9

\* the variables of group g (0-based) of family k: 1 cell, 2 row-value, 3 column-value,
\* 4 box-value
Group(k, N, g) ==
    LET B == ISqrt(N)
        a == g \div N
        b == g % N
    IN  CASE k = 1 -> {var(N, a, b, v) : v \in 1..N}
          [] k = 2 -> {var(N, a, c, b + 1) : c \in 0..(N - 1)}
          [] k = 3 -> {var(N, r, a, b + 1) : r \in 0..(N - 1)}
          [] k = 4 -> {var(N, (a \div B) * B + dr, (a % B) * B + dc, b + 1) :
                          dr \in 0..(B - 1), dc \in 0..(B - 1)}

\* C6 (exactly-one shape): for each of the four families and each of its N * N groups,
\* to_cnf emits one positive clause holding exactly the group's N variables, all within
\* 1..N^3, followed by C(N,2) two-literal negative clauses, one per unordered pair of
\* the group's variables; in both encoder files and for every valid N.
EncodingShape ==
    (Encoded /\ ValidGrid(text)) =>
        LET N == GridN
            P == (N * (N - 1)) \div 2
        IN  /\ Len(clauses) >= 4 * N * N * (1 + P)
            /\ \A k \in 1..4 : \A g \in 0..(N * N - 1) :
                  LET o == ((k - 1) * N * N + g) * (1 + P)
                      G == Group(k, N, g)
                  IN  /\ G \subseteq 1..(N * N * N)
                      /\ Len(clauses[o + 1]) = N
                      /\ Range(clauses[o + 1]) = G
                      /\ \A j \in 1..P : Len(clauses[o + 1 + j]) = 2
                      /\ {Range(clauses[o + 1 + j]) : j \in 1..P}
                            = {{-x, -y} : x, y \in G} \ {{-x} : x \in G}

\* the cell (r, c) of a variable and its value
CellOf(N, x) == <<(x - 1) \div (N * N), ((x - 1) \div N) % N>>

ValueOf(N, x) == ((x - 1) % N) + 1

\* two cells share an edge
Adjacent(p, q) == Abs(p[1] - q[1]) + Abs(p[2] - q[2]) = 1

\* the emitted two-literal negative clauses that relate two different cells with two
\* different values
CrossClauses ==
    SelectSeq(clauses, LAMBDA cl :
        /\ Len(cl) = 2
        /\ cl[1] < 0 /\ cl[2] < 0
        /\ CellOf(GridN, -cl[1]) # CellOf(GridN, -cl[2])
        /\ ValueOf(GridN, -cl[1]) # ValueOf(GridN, -cl[2]))

\* the clauses {-var(a, u), -var(b, w)} for cells a, b sharing an edge and |u - w| = 1
AdjacencyClauses(N) ==
    {{-var(N, s[1], s[2], s[3]), -var(N, t[1], t[2], t[3])} :
        <<s, t>> \in {q \in Triples(N) \X Triples(N) :
                        /\ Adjacent(<<q[1][1], q[1][2]>>, <<q[2][1], q[2][2]>>)
                        /\ Abs(q[1][3] - q[2][3]) = 1}}

\* C7 (adjacency coverage): the clauses of to_cnf hold, for every two cells sharing an edge
\* and every two values differing by 1, the clause {-var(a, u), -var(b, w)} exactly once,
\* and hold no clause of this kind for other cells or other values; in both encoder files.
AdjacencyCoverage ==
    Encoded =>
        LET X == CrossClauses
        IN  /\ {Range(X[i]) : i \in 1..Len(X)} = AdjacencyClauses(GridN)
            /\ Len(X) = Cardinality(AdjacencyClauses(GridN))

\* the CODE encoder, which looks down before right, has encoded the 9 x 9 grid
AdjacencyCoverageWitness == Encoded /\ enc = "CODE" /\ GridN = 9 /\ Len(CrossClauses) > 0

\* C8 (input validation): to_cnf fails with an InvalidPuzzle error, with no clause built
\* and nothing returned, whenever the grid is not square, N is not a perfect square or a
\* token lies outside 0..N.
InputValidation ==
    (enc # "none" /\ pc # "start" /\ ~ValidGrid(text)) =>
        /\ pc = "error"
        /\ status = "InvalidPuzzle"
        /\ clauses = <<>>
        /\ num_vars = 0

\* num_vars is the cube of a perfect square
CubeOfValidN == \E n \in 1..num_vars : ValidN(n) /\ n * n * n = num_vars

\* C9 (decoder inverts var): when solve_cnf answers "SAT" on an instance of N^3 variables,
\* N a perfect square, the grid has N rows of N entries and grid[r][c] = v exactly when
\* variable r*N*N + c*N + v is true in the model.
DecoderInverse ==
    (pc = "done" /\ status = "SAT" /\ CubeOfValidN) =>
        LET N == CHOOSE n \in 1..num_vars : ValidN(n) /\ n * n * n = num_vars
            m == ret[1].model
        IN  /\ DOMAIN grid = 0..(N - 1)
            /\ \A r \in 0..(N - 1) : DOMAIN grid[r] = 0..(N - 1)
            /\ \A t \in Triples(N) :
                  (grid[t[1]][t[2]] = t[3]) <=> (m[var(N, t[1], t[2], t[3])] = 1)

\* the 4 x 4 puzzle whose only clue is 1 at cell (0, 0)
Scenario1Grid ==
    << <<1, 0, 0, 0>>, <<0, 0, 0, 0>>, <<0, 0, 0, 0>>, <<0, 0, 0, 0>> >>

\* the pipeline was given scenario 1 and is over
Scenario1Over == enc # "none" /\ text = Scenario1Grid /\ pc \in {"done", "error"}

\* g is a full N x N grid obeying the row, column, box and non-consecutive rules
ValidSolution(g, N) ==
    LET B == ISqrt(N)
        I == 0..(N - 1)
    IN  /\ DOMAIN g = I
        /\ \A r \in I : DOMAIN g[r] = I
        /\ \A r \in I : {g[r][c] : c \in I} = 1..N
        /\ \A c \in I : {g[r][c] : r \in I} = 1..N
        /\ \A br \in 0..(B - 1) : \A bc \in 0..(B - 1) :
              {g[br * B + dr][bc * B + dc] : dr \in 0..(B - 1), dc \in 0..(B - 1)} = 1..N
        /\ \A p \in I \X I : \A q \in I \X I :
              Adjacent(p, q) => Abs(g[p[1]][p[2]] - g[q[1]][q[2]]) # 1

\* C10 as stated (scenario 1 solvable): to_cnf then solve_cnf on scenario 1 returns "SAT"
\* with a full valid 4 x 4 grid whose cell (0, 0) is 1.
Scenario1Sat ==
    Scenario1Over =>
        /\ pc = "done"
        /\ status = "SAT"
        /\ ValidSolution(grid, 4)
        /\ grid[0][0] = 1

\* C10 as amended (scenario 1 has no solution): to_cnf then solve_cnf on scenario 1 returns
\* "UNSAT" and no grid.
Scenario1Unsat ==
    Scenario1Over =>
        /\ pc = "done"
        /\ status = "UNSAT"
        /\ grid = <<>>

\* solve_cnf has answered on scenario 1
Scenario1Witness == Scenario1Over /\ pc = "done"

\* some two cells of the puzzle sharing an edge hold clues that differ by exactly 1
ClashingClues ==
    /\ enc # "none"
    /\ ValidGrid(text)
    /\ \E p \in (1..GridN) \X (1..GridN) : \E q \in (1..GridN) \X (1..GridN) :
          /\ Adjacent(p, q)
          /\ text[p[1]][p[2]] # 0
          /\ text[q[1]][q[2]] # 0
          /\ Abs(text[p[1]][p[2]] - text[q[1]][q[2]]) = 1

\* C11 (scenario 2, conflicting clues): for a puzzle with two orthogonally adjacent clues
\* differing by exactly 1, to_cnf followed by solve_cnf returns "UNSAT" and no grid; the
\* root call of dpll fails within its unit propagation, before any decision.
ConflictUnsat ==
    ClashingClues =>
        /\ pc # "error"
        /\ pc = "done" => (status = "UNSAT" /\ grid = <<>>)
        /\ pc = "solving" => /\ Len(stack) <= 1
                             /\ stack # <<>> => /\ Top.pc = "propagate"
                                                /\ Top.unit_queue # <<>>
                             /\ ret # <<>> => ~ret[1].sat

\* solve_cnf has answered on a 9 x 9 puzzle with two clashing clues
ConflictUnsatWitness == ClashingClues /\ GridN = 9 /\ pc = "done"

\* the filled cells of g break none of the row, column, box and non-consecutive rules
RulesKept(g, N) ==
    LET B == ISqrt(N)
        I == 0..(N - 1)
    IN  \A p \in I \X I : \A q \in I \X I :
            (p # q /\ g[p[1]][p[2]] # 0 /\ g[q[1]][q[2]] # 0) =>
                /\ (p[1] = q[1] \/ p[2] = q[2]
                    \/ (p[1] \div B = q[1] \div B /\ p[2] \div B = q[2] \div B))
                      => g[p[1]][p[2]] # g[q[1]][q[2]]
                /\ Adjacent(p, q) => Abs(g[p[1]][p[2]] - g[q[1]][q[2]]) # 1

RECURSIVE Completes(_, _, _)
\* the blank cells of g from cell number k on can be filled with rules kept
Completes(g, N, k) ==
    IF k = N * N THEN TRUE
    ELSE LET r == k \div N
             c == k % N
         IN  IF g[r][c] # 0 THEN Completes(g, N, k + 1)
             ELSE \E v \in 1..N :
                     LET h == [g EXCEPT ![r][c] = v]
                     IN  RulesKept(h, N) /\ Completes(h, N, k + 1)

\* the puzzle t, its pre-filled cells included, can be completed to a valid grid
Completable(t) ==
    LET N == Len(t)
        g == [r \in 0..(N - 1) |-> [c \in 0..(N - 1) |-> t[r + 1][c + 1]]]
    IN  RulesKept(g, N) /\ Completes(g, N, 0)

\* C12 (baseline verdict): solve_with_backtracking answers "SAT" exactly when the puzzle,
\* its pre-filled cells included, can be completed to a grid obeying the row, column, box
\* and non-consecutive rules; pre-filled cells that break a rule among themselves give
\* "UNSAT".
BaselineVerdict ==
    (enc = "backtracking" /\ pc = "done") =>
        ((status = "SAT") <=> Completable(text))

\* occurrences of literal l in the instance handed to solve_cnf, one per clause
Occurrences(l) == Cardinality({i \in 1..Len(clauses) : l \in Range(clauses[i])})

\* combined frequency of variable v in the original instance
Frequency(v) == Occurrences(v) + Occurrences(-v)

\* call k has chosen its branching variable
Deciding(k) == stack[k].pc \in {"branch", "call"}

\* the branching variable of call k is unassigned there, has the highest combined
\* frequency among the unassigned variables, and the smallest id among those that have it
BestChoice(k) ==
    LET f == stack[k]
        unassigned == {i \in 1..num_vars : f.assignment[i] = 0}
    IN  /\ f.var \in unassigned
        /\ \A w \in unassigned : \/ Frequency(w) < Frequency(f.var)
                                 \/ (Frequency(w) = Frequency(f.var) /\ f.var <= w)

\* the table is the literal frequency of the original instance and every decision
\* follows it
StaticRanking ==
    (enc = "none" /\ pc = "solving") =>
        /\ \A l \in Lits(num_vars) : Get(literal_counts, l) = Occurrences(l)
        /\ \A k \in 1..Len(stack) : Deciding(k) => /\ BestChoice(k)
                                                   /\ stack[k].val \in {1, -1}

\* the true branch of the innermost call has just failed: the recursive call returned
\* False, or committing the variable to true emptied a clause
TrueBranchFailed(k) ==
    /\ k = Len(stack)
    /\ stack[k].val = 1
    /\ \/ stack[k].pc = "call" /\ ret # <<>> /\ ~ret[1].sat
       \/ stack[k].pc = "branch" /\ \E i \in 1..Len(stack[k].clauses) :
                                        stack[k].clauses[i] = {-stack[k].var}

\* a step keeps the table, starts every decision with true, and turns a decision to
\* false only when its true branch has failed
ValueOrder ==
    (enc = "none" /\ pc = "solving" /\ pc' = "solving") =>
        /\ literal_counts' = literal_counts
        /\ \A k \in 1..Len(stack') :
              (stack'[k].pc \in {"branch", "call"}) =>
                 IF k <= Len(stack) /\ Deciding(k)
                 THEN /\ stack'[k].var = stack[k].var
                      /\ \/ stack'[k].val = stack[k].val
                         \/ (stack'[k].val = -1 /\ TrueBranchFailed(k))
                 ELSE stack'[k].val = 1

\* C13 (branching order): every decision of dpll takes the unassigned variable of highest
\* count(v) + count(-v) in the table computed once from the original instance, smallest
\* id on ties, tries true first and false only after the true branch has failed.
BranchingOrder == []StaticRanking /\ [][ValueOrder]_vars

\* a call is in the false branch of a decision between two variables of equal frequency
BranchingOrderWitness ==
    /\ enc = "none"
    /\ pc = "solving"
    /\ \E k \in 1..Len(stack) :
          /\ stack[k].pc = "call"
          /\ stack[k].val = -1
          /\ \E w \in 1..num_vars : /\ w # stack[k].var
                                    /\ stack[k].assignment[w] = 0
                                    /\ Frequency(w) = Frequency(stack[k].var)

\* a step leaves the clause list and the assignment array of every call but the
\* innermost one as they are, and those of the innermost call too once it has decided
CallerUntouched ==
    \A k \in 1..Len(stack) :
        (k <= Len(stack') /\ (k < Len(stack) \/ Deciding(k))) =>
            /\ stack'[k].clauses = stack[k].clauses
            /\ stack'[k].assignment = stack[k].assignment

\* a new call gets the deciding call's clause list with the clauses holding the committed
\* literal left out and the opposite literal removed, and its assignment array with only
\* the branching variable changed
BuiltFromCaller ==
    (Len(stack) >= 1 /\ Len(stack') = Len(stack) + 1) =>
        LET f == stack[Len(stack)]
            g == stack'[Len(stack')]
            lit == IF f.val > 0 THEN f.var ELSE -f.var
            kept == SelectSeq(f.clauses, LAMBDA cl : lit \notin cl)
        IN  /\ Deciding(Len(stack))
            /\ g.assignment = [i \in 0..num_vars |-> IF i = f.var THEN f.val ELSE f.assignment[i]]
            /\ g.clauses = [i \in 1..Len(kept) |-> kept[i] \ {-lit}]

\* C14 (backtracking isolation): a dpll call never changes the clause list or the
\* assignment array of its caller, and the false branch of a decision is built from the
\* same post-propagation clauses and assignment as its true branch.
Isolation ==
    [][(enc = "none" /\ pc = "solving" /\ pc' = "solving")
            => (CallerUntouched /\ BuiltFromCaller)]_vars

\* the call made for the false branch of a decision has propagated at least one unit
IsolationWitness ==
    /\ enc = "none"
    /\ pc = "solving"
    /\ Len(stack) >= 2
    /\ stack[Len(stack) - 1].val = -1
    /\ stack[Len(stack)].assignment # [stack[Len(stack) - 1].assignment
                                          EXCEPT ![stack[Len(stack) - 1].var] = -1]

\* the clauses left in call k are non-empty and hold no literal of an assigned variable
CleanClauses(k) ==
    \A i \in 1..Len(stack[k].clauses) :
        /\ stack[k].clauses[i] # {}
        /\ \A l \in stack[k].clauses[i] : stack[k].assignment[Abs(l)] = 0

\* whenever the unit queue of a call is empty its remaining clauses are clean
CleanAfterPropagation ==
    \A k \in 1..Len(stack) : stack[k].unit_queue = <<>> => CleanClauses(k)

\* the innermost call has finished its unit propagation and not yet gone on
AtEndOfPropagation ==
    stack # <<>> /\ Top.pc = "propagate" /\ Top.unit_queue = <<>>

\* the instance has no empty clause and names only variables of 1..num_vars
PlainInstance ==
    /\ LiteralsInRange
    /\ \A i \in 1..Len(clauses) : clauses[i] # <<>>

\* every clause of the instance holds a literal made true by an assigned entry of asg
SettledBy(asg) ==
    \A i \in 1..Len(clauses) :
        \E l \in Range(clauses[i]) : asg[Abs(l)] = (IF l > 0 THEN 1 ELSE -1)

\* on a plain instance: clauses never remain without an unassigned variable, and when
\* no clause remains the assigned variables alone satisfy the instance
NoDeadEnd ==
    (PlainInstance /\ AtEndOfPropagation) =>
        IF Top.clauses = <<>>
        THEN SettledBy(Top.assignment)
        ELSE \E i \in 1..num_vars : Top.assignment[i] = 0

\* C15 as stated (invariant of propagation): whenever the unit queue of a dpll call is
\* empty, on any instance, no remaining clause is empty or holds a literal of an assigned
\* variable; on instances without an empty clause and with variables in 1..num_vars
\* "clauses remain but no unassigned variable" is unreachable and filling unassigned
\* variables with false at a leaf falsifies no clause.
PropagationInvariant ==
    (enc = "none" /\ pc = "solving") => (CleanAfterPropagation /\ NoDeadEnd)

\* C15 as amended: the same, the first part too only on instances without an empty
\* clause and with variables in 1..num_vars.
PlainPropagationInvariant ==
    (enc = "none" /\ pc = "solving" /\ PlainInstance) => (CleanAfterPropagation /\ NoDeadEnd)

\* a nested call on a plain instance is a leaf with a variable left unassigned
PlainPropagationWitness ==
    /\ enc = "none"
    /\ pc = "solving"
    /\ PlainInstance
    /\ AtEndOfPropagation
    /\ Len(stack) >= 2
    /\ Top.clauses = <<>>
    /\ \E i \in 1..num_vars : Top.assignment[i] = 0

====
